---- MODULE Spec2Model ----
(***************************************************************************)
(* PDF scanner: the scan pipeline of backend.py (PDFScanner.scan_pdf and   *)
(* its helpers), the batch scheduler (PDFScanner.scan_multiple_pdfs) and   *)
(* the worker thread of gui.py (ScanWorker) that drives them and reports   *)
(* to the window through Qt signals.                                       *)
(*                                                                         *)
(* Strings that the code builds are records: a text, the file name that    *)
(* is interpolated into it ("" when none) and the numbers interpolated     *)
(* into it.  A Python dict is the sequence of its items in insertion       *)
(* order.  A file size is st_size in bytes.                                *)
(***************************************************************************)
EXTENDS Integers, Sequences, FiniteSets, TLC

(***************************************************************************)
(* Bounds of the model.                                                    *)
(***************************************************************************)
\* longest batch handed to a ScanWorker
MaxFiles == 2
\* largest number of processing units of the machine (multiprocessing.cpu_count())
MaxCpu == 2

(***************************************************************************)
(* Program constants.                                                      *)
(***************************************************************************)
MAX_FILE_SIZE_MB == 1024
WARNING_FILE_SIZE_MB == 100
LARGE_FILE_SIZE_MB == 500
\* bytes in one MB: file_path.stat().st_size / (1024 * 1024)
MiB == 1048576
\* the worker cap of the policy: MAX_WORKERS = min(6, CPU_COUNT)
WorkerCap == 6
\* the lower cap when batching: max_concurrent = min(self.MAX_WORKERS, 3)
BatchCap == 3
\* lines[2:]: the header lines the parser skips
HeaderLines == 2

Min(a, b) == IF a <= b THEN a ELSE b

MAX_WORKERS(cpu) == Min(WorkerCap, cpu)

(***************************************************************************)
(* Strings.                                                                *)
(***************************************************************************)
Str(text) == [text |-> text, name |-> "", num |-> <<>>]
StrN(text, num) == [text |-> text, name |-> "", num |-> num]
StrP(text, name) == [text |-> text, name |-> name, num |-> <<>>]
\* error_message: Optional[str] = None
None == Str("None")

(***************************************************************************)
(* ThreatLevel and THREAT_DEFINITIONS.                                     *)
(***************************************************************************)
ThreatLevel == {"SAFE", "LOW", "MEDIUM", "HIGH", "CRITICAL"}

THREAT_DEFINITIONS ==
    [k \in {"/JS", "/JavaScript", "/AA", "/OpenAction", "/Launch", "/EmbeddedFile",
            "/RichMedia", "/XFA", "/Encrypt", "/Names", "/AcroForm"} |->
        CASE k \in {"/JS", "/JavaScript"} -> "CRITICAL"
          [] k \in {"/AA", "/OpenAction", "/Launch"} -> "HIGH"
          [] k \in {"/EmbeddedFile", "/RichMedia", "/XFA"} -> "MEDIUM"
          [] OTHER -> "LOW"]

_threat_level_priority(level) ==
    CASE level = "SAFE" -> 0
      [] level = "LOW" -> 1
      [] level = "MEDIUM" -> 2
      [] level = "HIGH" -> 3
      [] level = "CRITICAL" -> 4

(***************************************************************************)
(* Python dict: the sequence of its items, in insertion order.             *)
(***************************************************************************)
DictKeys(d) == {d[i].k : i \in 1..Len(d)}

\* d.setdefault(key, value): a key already present keeps its value
DictSetDefault(d, key, value) ==
    IF key \in {d[i].k : i \in 1..Len(d)} THEN d ELSE Append(d, [k |-> key, v |-> value])

\* d[key] = value: a key already present keeps its place
DictSet(d, key, value) ==
    IF key \in DictKeys(d)
    THEN [i \in 1..Len(d) |-> IF d[i].k = key THEN [k |-> key, v |-> value] ELSE d[i]]
    ELSE Append(d, [k |-> key, v |-> value])

\* d.get(key, default)
DictGet(d, key, default) ==
    IF key \in DictKeys(d)
    THEN d[CHOOSE i \in 1..Len(d) : d[i].k = key].v
    ELSE default

(***************************************************************************)
(* Output of the external tool: text is a sequence of lines, a line the    *)
(* sequence of its whitespace-separated tokens (line.strip().split()).     *)
(***************************************************************************)
\* the tokens int() accepts, with the value it returns
IntLiteral == ("0" :> 0) @@ ("1" :> 1) @@ ("2" :> 2) @@ ("+3" :> 3) @@ ("-1" :> 0 - 1)
              @@ ("600" :> 600)

\* int(value_str): value_str is the rest of the line after the first token; it
\* is an integer only when it is one token that is an integer literal
IntParses(rest) == Len(rest) = 1 /\ rest[1] \in DOMAIN IntLiteral
IntOf(rest) == IntLiteral[rest[1]]

\* a loop body that records a count of 0 for a value that is not an integer
ParseLineZeroOnError(keyword_counts, line) ==
    IF Len(line) = 0 THEN keyword_counts
    ELSE IF Len(line) >= 2
         THEN DictSet(keyword_counts, line[1],
                      IF IntParses(Tail(line)) THEN IntOf(Tail(line)) ELSE 0)
         ELSE keyword_counts

\* the body of the loop of _parse_pdfid_output, for one line
ParseLine(keyword_counts, line) ==
    IF Len(line) = 0 THEN keyword_counts
    ELSE IF Len(line) >= 2 /\ IntParses(Tail(line))
         THEN DictSet(keyword_counts, line[1], IntOf(Tail(line)))
         ELSE keyword_counts

RECURSIVE ParseLines(_, _)
ParseLines(keyword_counts, data_lines) ==
    IF data_lines = <<>> THEN keyword_counts
    ELSE ParseLines(ParseLine(keyword_counts, Head(data_lines)), Tail(data_lines))

\* data_lines = lines[2:]
DataLinesAlways(lines) == SubSeq(lines, HeaderLines + 1, Len(lines))

\* data_lines = lines[2:] if len(lines) > 2 else lines
DataLines(lines) ==
    IF Len(lines) > HeaderLines THEN SubSeq(lines, HeaderLines + 1, Len(lines)) ELSE lines

_parse_pdfid_output(output) == ParseLines(<<>>, DataLines(output))

(***************************************************************************)
(* Classifier and recommendation synthesizer.                              *)
(***************************************************************************)
\* a test that takes a count of zero for a finding
IsThreatNonNegative(item) == item.v >= 0 /\ item.k \in DOMAIN THREAT_DEFINITIONS

\* one item of keywords.items() is a finding
IsThreat(item) == item.v > 0 /\ item.k \in DOMAIN THREAT_DEFINITIONS

\* the loop of _assess_threats over the items, in their order
RECURSIVE AssessLoop(_, _, _)
AssessLoop(items, max_threat_level, threat_count) ==
    IF items = <<>> THEN [level |-> max_threat_level, count |-> threat_count]
    ELSE LET item == Head(items)
             threat_level == THREAT_DEFINITIONS[item.k]
         IN  IF IsThreat(item)
             THEN AssessLoop(Tail(items),
                             IF _threat_level_priority(threat_level)
                                  > _threat_level_priority(max_threat_level)
                             THEN threat_level ELSE max_threat_level,
                             threat_count + 1)
             ELSE AssessLoop(Tail(items), max_threat_level, threat_count)

\* a table that lacks the entry of SAFE, read with a default of []
base_recommendations_no_safe(threat_level, threat_count) ==
    CASE threat_level = "CRITICAL" -> << Str("CRITICAL THREAT DETECTED - DO NOT OPEN") >>
      [] threat_level = "HIGH" -> << Str("HIGH RISK - Exercise extreme caution") >>
      [] threat_level = "MEDIUM" ->
            << StrN("{threat_count} concerning feature(s) found", <<threat_count>>) >>
      [] threat_level = "LOW" -> << Str("Low risk features present") >>
      [] OTHER -> <<>>

\* a table whose MEDIUM list ends in a fixed text
base_recommendations_fixed(threat_level, threat_count) ==
    CASE threat_level = "MEDIUM" ->
            << Str("Medium risk features detected"),
               Str("Review embedded content before opening"),
               Str("Use updated PDF viewer with security features"),
               Str("Concerning feature(s) found") >>
      [] OTHER -> base_recommendations_no_safe(threat_level, threat_count)

base_recommendations(threat_level, threat_count) ==
    CASE threat_level = "CRITICAL" ->
            << Str("CRITICAL THREAT DETECTED - DO NOT OPEN"),
               Str("This PDF contains dangerous executable code"),
               Str("Use isolated/sandboxed environment only"),
               Str("Consider this file potentially malicious") >>
      [] threat_level = "HIGH" ->
            << Str("HIGH RISK - Exercise extreme caution"),
               Str("Disable JavaScript in PDF viewer"),
               Str("Scan with updated antivirus software"),
               Str("Do not enable any prompts or dialogs") >>
      [] threat_level = "MEDIUM" ->
            << Str("Medium risk features detected"),
               Str("Review embedded content before opening"),
               Str("Use updated PDF viewer with security features"),
               StrN("{threat_count} concerning feature(s) found", <<threat_count>>) >>
      [] threat_level = "LOW" ->
            << Str("Low risk features present"),
               Str("File appears relatively safe"),
               Str("Standard PDF viewer precautions apply") >>
      [] threat_level = "SAFE" ->
            << Str("No obvious threats detected"),
               Str("File appears clean and safe to open") >>
      [] OTHER -> << Str("Unknown threat level") >>

\* keywords is the parsed mapping: file_size_mb is read from it, in MB
_generate_recommendations(threat_level, threat_count, keywords) ==
    LET recommendations == base_recommendations(threat_level, threat_count)
        file_size_mb == DictGet(keywords, "file_size_mb", 0)
    IN  IF file_size_mb > LARGE_FILE_SIZE_MB
        THEN recommendations \o
             << StrN("Very large file ({file_size_mb:.1f}MB) - ensure sufficient system resources",
                     <<file_size_mb>>),
                Str("Large PDFs may take time to open and may consume significant memory") >>
        ELSE IF file_size_mb > WARNING_FILE_SIZE_MB
        THEN recommendations \o
             << StrN("Large file ({file_size_mb:.1f}MB) - may require extra loading time",
                     <<file_size_mb>>) >>
        ELSE recommendations

_assess_threats(keywords) ==
    LET a == AssessLoop(keywords, "SAFE", 0)
    IN  [threat_level |-> a.level,
         threat_count |-> a.count,
         recommendations |-> _generate_recommendations(a.level, a.count, keywords)]

RECURSIVE CountThreats(_)
CountThreats(items) ==
    IF items = <<>> THEN 0
    ELSE (IF IsThreat(Head(items)) THEN 1 ELSE 0) + CountThreats(Tail(items))

\* the summary: its text, the size indicator and the interpolated count
_generate_summary(keywords, threat_level) ==
    LET threat_count == CountThreats(keywords)
        file_size_mb == DictGet(keywords, "file_size_mb", 0)
        size_indicator == IF file_size_mb > LARGE_FILE_SIZE_MB THEN " (Very Large File)"
                          ELSE IF file_size_mb > WARNING_FILE_SIZE_MB THEN " (Large File)"
                          ELSE ""
    IN  CASE threat_level = "SAFE" -> StrP("Clean - No threats detected", size_indicator)
          [] threat_level = "LOW" ->
                [text |-> "Low Risk - minor issue(s) found", name |-> size_indicator,
                 num |-> <<threat_count>>]
          [] threat_level = "MEDIUM" ->
                [text |-> "Medium Risk - concerning feature(s)", name |-> size_indicator,
                 num |-> <<threat_count>>]
          [] threat_level = "HIGH" ->
                [text |-> "High Risk - dangerous feature(s)", name |-> size_indicator,
                 num |-> <<threat_count>>]
          [] threat_level = "CRITICAL" ->
                [text |-> "CRITICAL - severe threat(s) detected", name |-> size_indicator,
                 num |-> <<threat_count>>]
          [] OTHER -> StrP("Unknown threat level", size_indicator)

(***************************************************************************)
(* File admission: sizes, suffixes, timeout.                               *)
(***************************************************************************)
\* file_size_mb > mb, for file_size_mb = st_size / (1024 * 1024)
SizeOver(st_size, mb) == st_size > mb * MiB

\* round(file_size_mb, 2), in hundredths of a MB
Round2(st_size) == (st_size \div MiB) * 100 + ((st_size % MiB) * 100 + MiB \div 2) \div MiB

\* f"{file_size_mb:.1f}", in tenths of a MB
Fmt1(st_size) == (st_size \div MiB) * 10 + ((st_size % MiB) * 10 + MiB \div 2) \div MiB

\* file_path.suffix, for the paths of the model
Suffix(file_path) ==
    CASE file_path \in {"a.pdf", "b.pdf", "c.pdf"} -> ".pdf"
      [] file_path = "D.PDF" -> ".PDF"
      [] file_path = "notes.txt" -> ".txt"
      [] OTHER -> ""

\* str.lower(), on suffixes
Lower(suffix) == IF suffix = ".PDF" THEN ".pdf" ELSE suffix

\* str.strip(), on the stderr texts of the model
Strip(text) == IF text = " " THEN "" ELSE text

\* a policy with the budgets of the two middle steps exchanged
_calculate_timeout_swapped(st_size) ==
    IF ~SizeOver(st_size, 10) THEN 30
    ELSE IF ~SizeOver(st_size, 100) THEN 180
    ELSE IF ~SizeOver(st_size, 500) THEN 60
    ELSE 300

_calculate_timeout(st_size) ==
    IF ~SizeOver(st_size, 10) THEN 30
    ELSE IF ~SizeOver(st_size, 100) THEN 60
    ELSE IF ~SizeOver(st_size, 500) THEN 180
    ELSE 300

(***************************************************************************)
(* Process orchestrator.  run describes what the machine does with the     *)
(* command: run.priority is the outcome of the priority hint ("ok", or the *)
(* exception it raises), run.kind the outcome of subprocess.run            *)
(* ("completed", "TimeoutExpired", or "OSError" when the launch fails).    *)
(***************************************************************************)
\* exceptions of the hint that _set_process_priority swallows
PriorityIgnored == {"ImportError", "OSError", "AttributeError"}

\* TRUE when the call returns normally
_set_process_priority(run) == run.priority = "ok" \/ run.priority \in PriorityIgnored

MockResult(error) ==
    [kind |-> "completed", returncode |-> 1, stdout |-> <<>>, stderr |-> error, invoked |-> 0]

_run_pdfid_scan(run) ==
    IF ~_set_process_priority(run) THEN MockResult(run.priority)
    ELSE IF run.kind = "OSError" THEN [MockResult("OSError") EXCEPT !.invoked = 1]
    ELSE IF run.kind = "TimeoutExpired"
         THEN [kind |-> "TimeoutExpired", returncode |-> 0, stdout |-> <<>>, stderr |-> "",
               invoked |-> 1]
    ELSE [kind |-> "completed", returncode |-> run.returncode, stdout |-> run.stdout,
          stderr |-> run.stderr, invoked |-> 1]

(***************************************************************************)
(* ScanResult and the terminal results of scan_pdf.                        *)
(***************************************************************************)
ScanResult(file_path, success, threat_level, summary, details, recommendations, error_message) ==
    [file_path |-> file_path, success |-> success, threat_level |-> threat_level,
     summary |-> summary, details |-> details, recommendations |-> recommendations,
     error_message |-> error_message]

NotFoundResult(file_path) ==
    ScanResult(file_path, FALSE, "SAFE", Str("File not found"), <<>>, <<>>,
               StrP("File does not exist: {file_path}", file_path))

\* a failure result that leaves error_message at its default
InvalidTypeResultSilent(file_path) ==
    ScanResult(file_path, FALSE, "SAFE", Str("Invalid file type"), <<>>, <<>>, None)

InvalidTypeResult(file_path) ==
    ScanResult(file_path, FALSE, "SAFE", Str("Invalid file type"), <<>>, <<>>,
               Str("File is not a PDF document"))

TooLargeResult(file_path, st_size) ==
    ScanResult(file_path, FALSE, "SAFE", Str("File too large"),
               DictSet(<<>>, "file_size_mb", Round2(st_size)),
               << StrN("File size: {file_size_mb:.1f}MB exceeds limit of {MAX_FILE_SIZE_MB}MB (1GB)",
                       <<Fmt1(st_size), MAX_FILE_SIZE_MB>>),
                  Str("Try with a smaller PDF file (under 1GB)"),
                  Str("Very large files may contain complex threats requiring specialized tools"),
                  Str("Consider splitting the PDF into smaller chunks if possible") >>,
               StrN("File size ({file_size_mb:.1f}MB) exceeds maximum allowed size ({MAX_FILE_SIZE_MB}MB)",
                    <<Fmt1(st_size), MAX_FILE_SIZE_MB>>))

AccessErrorResult(file_path, e) ==
    ScanResult(file_path, FALSE, "SAFE", Str("File access error"), <<>>, <<>>,
               StrP("Cannot access file: {str(e)}", e))

ToolUnavailableResult(file_path) ==
    ScanResult(file_path, FALSE, "SAFE", Str("Scanner not available"), <<>>,
               << Str("Install pdfid tool"),
                  Str("Download from: https://blog.didierstevens.com/programs/pdf-tools/"),
                  Str("Place pdfid.py in one of these locations: {_get_suggested_paths()}") >>,
               Str("pdfid.py not found in expected locations"))

\* a failure result that keeps a level other than SAFE
ProcessFailureResultLow(file_path, stderr) ==
    ScanResult(file_path, FALSE, "LOW", Str("Scan failed"), <<>>,
               << Str("PDF file may be corrupted, encrypted, or too complex") >>,
               StrP("pdfid scan error: {stderr_msg}", stderr))

ProcessFailureResult(file_path, stderr) ==
    LET stderr_msg == IF stderr # "" THEN Strip(stderr) ELSE "Unknown error"
    IN  ScanResult(file_path, FALSE, "SAFE", Str("Scan failed"), <<>>,
               << Str("PDF file may be corrupted, encrypted, or too complex"),
                  Str("Try with a different PDF file"),
                  Str("Check if file is password protected"),
                  Str("Large files may require additional processing time") >>,
               StrP("pdfid scan error: {stderr_msg}", stderr_msg))

\* a timeout result that names the budget of the size policy, whatever was applied
TimeoutResultPolicy(file_path, st_size, timeout) ==
    ScanResult(file_path, FALSE, "SAFE", Str("Scan timeout"),
               DictSet(<<>>, "file_size_mb", Round2(st_size)),
               << StrN("Scan timed out after {timeout} seconds", <<_calculate_timeout(st_size)>>) >>,
               StrN("Scan timed out after {timeout} seconds - file may be too large or complex",
                    <<_calculate_timeout(st_size)>>))

TimeoutResult(file_path, st_size, timeout) ==
    ScanResult(file_path, FALSE, "SAFE", Str("Scan timeout"),
               DictSet(<<>>, "file_size_mb", Round2(st_size)),
               << StrN("Scan timed out after {timeout} seconds", timeout),
                  StrN("File size: {file_size_mb:.1f}MB may be too complex for current timeout",
                       <<Fmt1(st_size)>>),
                  Str("Very large PDFs (>500MB) may require extended processing time"),
                  Str("Try scanning smaller sections of the PDF if possible"),
                  Str("Consider using specialized tools for files approaching 1GB") >>,
               StrN("Scan timed out after {timeout} seconds - file may be too large or complex",
                    timeout))

UnexpectedErrorResult(file_path, st_size, e) ==
    ScanResult(file_path, FALSE, "SAFE", Str("Unexpected error"),
               DictSet(<<>>, "file_size_mb", Round2(st_size)),
               << Str("An unexpected error occurred during scanning"),
                  Str("Try with a different PDF file"),
                  Str("Ensure the file is not corrupted"),
                  Str("Large files may require more system resources") >>,
               StrP("Scan error: {str(e)}", e))

\* lines 287-307: parse, classify, synthesize, add the size keys
SuccessResult(file_path, st_size, stdout) ==
    LET keyword_counts == _parse_pdfid_output(stdout)
        a == _assess_threats(keyword_counts)
        summary == _generate_summary(keyword_counts, a.threat_level)
        with_size == DictSet(keyword_counts, "file_size_mb", Round2(st_size))
        details == IF SizeOver(st_size, WARNING_FILE_SIZE_MB)
                   THEN DictSet(with_size, "large_file", 1) ELSE with_size
    IN  ScanResult(file_path, TRUE, a.threat_level, summary, details, a.recommendations, None)

(***************************************************************************)
(* scan_pdf.  prof is what the file system holds at file_path:             *)
(*   kind     "file", "dir" or "none": scan_pdf never asks for it,         *)
(*   exists   "yes", "no", or "raise" (Path.exists() re-raises an OSError  *)
(*            it does not ignore, such as a permission error),             *)
(*   stat     "ok" or "OSError", st_size the size in bytes,                *)
(*   run      what running the tool on the file does.                      *)
(* sink is the progress callback: present or not, and the checkpoint at    *)
(* which a call of it raises ("none": never) with the exception raised.    *)
(* timeout is <<>> for None and <<t>> for t seconds.                       *)
(* The value is the outcome of the call: the result returned or the        *)
(* exception raised, the calls made to the sink, the number of calls of    *)
(* subprocess.run and the timeout in force.                                *)
(***************************************************************************)
Return(msgs, result, invoked, timeout) ==
    [raised |-> FALSE, exc |-> "", result |-> <<result>>, msgs |-> msgs,
     invoked |-> invoked, timeout |-> timeout]

Raise(msgs, exc, invoked, timeout) ==
    [raised |-> TRUE, exc |-> exc, result |-> <<>>, msgs |-> msgs,
     invoked |-> invoked, timeout |-> timeout]

\* if progress_callback: progress_callback(message)
Notify(sink, msgs, message) == IF sink.present THEN Append(msgs, message) ELSE msgs

SinkRaises(sink, checkpoint) == sink.present /\ sink.fail = checkpoint

\* lines 244-339: tool availability, the run, the verdict
ScanAdmitted(file_path, timeout, sink, prof, pdfid_path, msgs) ==
    IF ~pdfid_path THEN Return(msgs, ToolUnavailableResult(file_path), 0, timeout)
    ELSE
    LET m3 == Notify(sink, msgs, Str("Analyzing PDF structure..."))
        result == _run_pdfid_scan(prof.run)
        m4 == Notify(sink, m3, Str("Analyzing threats and generating report..."))
    IN  IF SinkRaises(sink, "structure") THEN Raise(m3, sink.exc, 0, timeout)
        ELSE IF result.kind = "TimeoutExpired"
        THEN Return(m3, TimeoutResult(file_path, prof.st_size, timeout), result.invoked, timeout)
        ELSE IF result.returncode # 0
        THEN Return(m3, ProcessFailureResult(file_path, result.stderr), result.invoked, timeout)
        ELSE IF SinkRaises(sink, "threats")
        THEN Return(m4, UnexpectedErrorResult(file_path, prof.st_size, sink.exc),
                    result.invoked, timeout)
        ELSE Return(m4, SuccessResult(file_path, prof.st_size, result.stdout),
                    result.invoked, timeout)

\* lines 203-242: the size check, the timeout, the large-file notifications
ScanSized(file_path, timeout, sink, prof, pdfid_path, msgs) ==
    IF prof.stat = "OSError" THEN Return(msgs, AccessErrorResult(file_path, "OSError"), 0, timeout)
    ELSE IF SizeOver(prof.st_size, MAX_FILE_SIZE_MB)
    THEN Return(msgs, TooLargeResult(file_path, prof.st_size), 0, timeout)
    ELSE
    LET t == IF timeout = <<>> THEN <<_calculate_timeout(prof.st_size)>> ELSE timeout
        warns == SizeOver(prof.st_size, WARNING_FILE_SIZE_MB)
        message == IF SizeOver(prof.st_size, LARGE_FILE_SIZE_MB)
                   THEN StrN("Very large file detected ({file_size_mb:.1f}MB) - this will take several minutes...",
                             <<Fmt1(prof.st_size)>>)
                   ELSE StrN("Large file detected ({file_size_mb:.1f}MB) - this may take longer...",
                             <<Fmt1(prof.st_size)>>)
        m2 == IF warns THEN Notify(sink, msgs, message) ELSE msgs
    IN  IF warns /\ SinkRaises(sink, "large")
        THEN IF sink.exc = "OSError"
             THEN Return(m2, AccessErrorResult(file_path, "OSError"), 0, t)
             ELSE Raise(m2, sink.exc, 0, t)
        ELSE ScanAdmitted(file_path, t, sink, prof, pdfid_path, m2)

\* a scan that looks at the extension before it looks for the file
scan_pdf_suffix_first(file_path, timeout, sink, prof, pdfid_path) ==
    LET m1 == Notify(sink, <<>>, Str("Validating file..."))
    IN  IF SinkRaises(sink, "validating") THEN Raise(m1, sink.exc, 0, timeout)
        ELSE IF Lower(Suffix(file_path)) # ".pdf"
        THEN Return(m1, InvalidTypeResult(file_path), 0, timeout)
        ELSE IF prof.exists = "raise" THEN Raise(m1, "PermissionError", 0, timeout)
        ELSE IF prof.exists = "no" THEN Return(m1, NotFoundResult(file_path), 0, timeout)
        ELSE ScanSized(file_path, timeout, sink, prof, pdfid_path, m1)

scan_pdf(file_path, timeout, sink, prof, pdfid_path) ==
    LET m1 == Notify(sink, <<>>, Str("Validating file..."))
    IN  IF SinkRaises(sink, "validating") THEN Raise(m1, sink.exc, 0, timeout)
        ELSE IF prof.exists = "raise" THEN Raise(m1, "PermissionError", 0, timeout)
        ELSE IF prof.exists = "no" THEN Return(m1, NotFoundResult(file_path), 0, timeout)
        ELSE IF Lower(Suffix(file_path)) # ".pdf"
        THEN Return(m1, InvalidTypeResult(file_path), 0, timeout)
        ELSE ScanSized(file_path, timeout, sink, prof, pdfid_path, m1)

(***************************************************************************)
(* Progress messages as the batch callback receives them: tag is the       *)
(* "[i/n] " that the lambda of scan_with_progress puts in front of a       *)
(* message of scan_pdf, frac the "i/n:" of "Scanning i/n: name".           *)
(***************************************************************************)
Plain(body) == [tag |-> <<>>, frac |-> <<>>, body |-> body]
Tagged(i, n, body) == [tag |-> <<i, n>>, frac |-> <<>>, body |-> body]
ScanningMsg(i, n, name) ==
    [tag |-> <<>>, frac |-> <<i, n>>, body |-> StrP("Scanning {i+1}/{total_files}: {file_path.name}", name)]

TagAll(i, n, msgs) == [j \in 1..Len(msgs) |-> Tagged(i, n, msgs[j])]

(***************************************************************************)
(* The batch unit: scan_with_progress run by the pool, and what the        *)
(* as_completed loop of scan_multiple_pdfs appends for its future.         *)
(***************************************************************************)
\* the sink scan_with_progress hands to scan_pdf: a lambda, always present;
\* it raises where the batch's own progress_callback raises
LambdaSink(sink) ==
    [present |-> TRUE, fail |-> IF sink.present THEN sink.fail ELSE "none", exc |-> sink.exc]

\* lines 466-472, for the file at index i (from 1) of total_files; msgs are the
\* calls made to the batch's progress_callback
scan_with_progress(i, total_files, file_path, sink, prof, pdfid_path) ==
    LET first == IF sink.present THEN <<ScanningMsg(i, total_files, file_path)>> ELSE <<>>
        o == scan_pdf(file_path, <<>>, LambdaSink(sink), prof, pdfid_path)
    IN  IF SinkRaises(sink, "scanning") THEN Raise(first, sink.exc, 0, <<>>)
        ELSE [o EXCEPT !.msgs = IF sink.present THEN first \o TagAll(i, total_files, o.msgs)
                                ELSE <<>>]

\* an error result whose message does not name the file
BatchErrorResultAnon(file_path, e) ==
    ScanResult(file_path, FALSE, "SAFE", Str("Scan failed"), <<>>, <<>>,
               StrP("Failed to scan: {str(e)}", ""))

\* lines 488-498: the result built for a future whose result() raises
BatchErrorResult(file_path, e) ==
    ScanResult(file_path, FALSE, "SAFE", Str("Scan failed"), <<>>, <<>>,
               StrP("Failed to scan {file_path.name}: {str(e)}", file_path))

\* lines 484-498: what is appended to results for a finished future
FutureResult(file_path, outcome) ==
    IF outcome.raised THEN BatchErrorResult(file_path, outcome.exc) ELSE outcome.result[1]

\* lines 69-79 of gui.py: the percentage batch_progress_callback reads out of a
\* message, <<>> when none.  The first part holding "/" decides: "[i/n]" makes
\* int("[i") fail, "i/n:" gives int((i / total_files) * 100)
ProgressOf(message, total_files) ==
    IF message.tag # <<>> THEN <<>>
    ELSE IF message.frac # <<>> THEN <<(message.frac[1] * 100) \div total_files>>
    ELSE <<>>

(***************************************************************************)
(* State.                                                                  *)
(***************************************************************************)
VARIABLES
    fs,              \* the file system: path -> what scan_pdf finds there
    pdfid_path,      \* PDFScanner.pdfid_path is set: the tool was located
    cpu_count,       \* PDFScanner.CPU_COUNT
    file_paths,      \* ScanWorker.file_paths, or the paths of a direct call
    api,             \* a direct call of the scanner: its timeout and its sink
    ret,             \* the outcome of the direct call, <<>> before it returns
    wpc,             \* where the worker thread stands in ScanWorker.run
    _is_cancelled,   \* ScanWorker._is_cancelled
    tasks,           \* per file: the state of its scan (its future in a batch)
    units,           \* per file: the run of its scan once started, <<>> before
    results,         \* the results list of scan_multiple_pdfs
    collected,       \* the futures as_completed has yielded
    ri,              \* the index of "for result in results" in the worker
    status_label,    \* PDFScannerGUI.status_label: the last progressUpdate
    progress_bar,    \* PDFScannerGUI.progress_bar: the last progressValue
    scan_history,    \* PDFScannerGUI.scan_history: one entry per scanComplete
    scan_errors,     \* the scanError signals emitted
    cards,           \* PDFScannerGUI.results_layout: the cards shown, each with its worker
    current_worker   \* PDFScannerGUI.current_worker: 1 is the worker whose thread is
                     \* followed here, 2 the one a later start_scan has put in its place

vars == <<fs, pdfid_path, cpu_count, file_paths, api, ret, wpc, _is_cancelled, tasks, units,
          results, collected, ri, status_label, progress_bar, scan_history, scan_errors,
          cards, current_worker>>

env == <<fs, pdfid_path, cpu_count, file_paths, api>>
gui == <<status_label, progress_bar, scan_history, scan_errors, cards, current_worker>>

(***************************************************************************)
(* Inputs.                                                                 *)
(***************************************************************************)
Header == << <<"PDFiD", "0.2.8", "a.pdf">>, <<"PDF", "Header:", "%PDF-1.4">> >>

\* what the tool prints, by sample
StdoutClean == Header \o << <<"obj", "2">>, <<"/Page", "1">>, <<"/JS", "0">> >>
StdoutJS == Header \o << <<"obj", "2">>, <<"/JS", "1">>, <<"/Encrypt", "2">> >>
StdoutMedium == Header \o << <<"/XFA", "2">>, <<"/RichMedia", "1">>, <<>>, <<"/AA", "1(1)">> >>
StdoutNegative == Header \o << <<"/JS", "-1">>, <<"/Page", "+3">> >>
StdoutSizeKey == Header \o << <<"/OpenAction", "1">>, <<"file_size_mb", "600">> >>
StdoutShort == << <<"/Encrypt", "1">> >>

Stdouts == {<<>>, StdoutClean, StdoutJS, StdoutMedium, StdoutNegative, StdoutSizeKey, StdoutShort}

Completed(stdout) ==
    [priority |-> "ok", kind |-> "completed", returncode |-> 0, stdout |-> stdout, stderr |-> ""]

Runs ==
    {Completed(out) : out \in Stdouts}
    \cup {[Completed(<<>>) EXCEPT !.returncode = 1, !.stderr = e] : e \in {"", " ", "Traceback"}}
    \cup {[Completed(StdoutJS) EXCEPT !.kind = k] : k \in {"TimeoutExpired", "OSError"}}
    \cup {[Completed(StdoutJS) EXCEPT !.priority = x] : x \in {"OSError", "ImportError", "psutil.Error"}}

\* st_size: empty, 5 MB, 10 MB and a byte, 150.3 MB, 600 MB, 1 GB, 1 GB and a byte, 2000 MB
Sizes == {0, 5 * MiB, 10 * MiB + 1, 150 * MiB + 314573, 600 * MiB, 1024 * MiB,
          1024 * MiB + 1, 2000 * MiB}

\* st_size of a directory
DirSize == 4096

\* what the tool may do when handed a directory: exit with an error, or print
\* its header and exit with 0
DirRuns == {[Completed(<<>>) EXCEPT !.returncode = 1, !.stderr = "Traceback"], Completed(Header)}

Profiles ==
    [kind : {"file"}, exists : {"yes"}, stat : {"ok"}, st_size : Sizes, run : Runs]
    \cup [kind : {"none"}, exists : {"no"}, stat : {"ok"}, st_size : {0},
          run : {Completed(StdoutClean)}]
    \cup [kind : {"file"}, exists : {"raise"}, stat : {"ok"}, st_size : {0},
          run : {Completed(StdoutClean)}]
    \cup [kind : {"file"}, exists : {"yes"}, stat : {"OSError"}, st_size : {0},
          run : {Completed(StdoutClean)}]
    \cup [kind : {"dir"}, exists : {"yes"}, stat : {"ok"}, st_size : {DirSize}, run : DirRuns]

Paths == {"a.pdf", "b.pdf", "c.pdf", "D.PDF", "notes.txt"}

NoSink == [present |-> FALSE, fail |-> "none", exc |-> ""]
Checkpoints == {"scanning", "validating", "large", "structure", "threats"}
Sinks ==
    {NoSink, [NoSink EXCEPT !.present = TRUE]}
    \cup [present : {TRUE}, fail : Checkpoints, exc : {"OSError", "RuntimeError"}]

\* the sink of a ScanWorker: its callbacks emit signals and return
WorkerSink == [NoSink EXCEPT !.present = TRUE]

\* the file system the worker scans: a small script-bearing PDF, a large clean
\* PDF, a PDF in a directory that may not be read, and a text file
WorkerFs ==
    [p \in Paths |->
        CASE p = "a.pdf" -> [kind |-> "file", exists |-> "yes", stat |-> "ok", st_size |-> 5 * MiB,
                             run |-> Completed(StdoutJS)]
          [] p = "b.pdf" -> [kind |-> "file", exists |-> "raise", stat |-> "ok", st_size |-> 0,
                             run |-> Completed(StdoutClean)]
          [] p = "c.pdf" -> [kind |-> "file", exists |-> "yes", stat |-> "ok", st_size |-> 150 * MiB + 314573,
                             run |-> Completed(StdoutClean)]
          [] OTHER -> [kind |-> "file", exists |-> "yes", stat |-> "ok", st_size |-> 5 * MiB,
                       run |-> Completed(StdoutClean)]]

WorkerPaths == {"a.pdf", "b.pdf", "notes.txt"}
\* the files of a batch in which every scan succeeds
ValidPaths == {"a.pdf", "c.pdf"}

SeqsUpTo(S, n) == UNION {[1..k -> S] : k \in 1..n}

NoApi == [timeout |-> <<>>, sink |-> NoSink]
IdleTask == [st |-> "queued", pos |-> 1, armed |-> FALSE]

(***************************************************************************)
(* The worker thread and the pool.                                         *)
(***************************************************************************)
N == Len(file_paths)
Files == 1..N

\* max_concurrent = min(self.MAX_WORKERS, 3)
MaxConcurrent == Min(MAX_WORKERS(cpu_count), BatchCap)

\* every unit of work scans the file the submitting loop stopped at
RunUnitLast(i) ==
    IF N = 1
    THEN LET o == scan_pdf(file_paths[1], <<>>, WorkerSink, fs[file_paths[1]], pdfid_path)
         IN  [o EXCEPT !.msgs = [j \in 1..Len(o.msgs) |-> Plain(o.msgs[j])]]
    ELSE scan_with_progress(i, N, file_paths[N], WorkerSink, fs[file_paths[N]], pdfid_path)

\* the scan of file i as the worker runs it: scan_pdf itself for a lone file,
\* scan_with_progress in a batch
RunUnit(i) ==
    IF N = 1
    THEN LET o == scan_pdf(file_paths[1], <<>>, WorkerSink, fs[file_paths[1]], pdfid_path)
         IN  [o EXCEPT !.msgs = [j \in 1..Len(o.msgs) |-> Plain(o.msgs[j])]]
    ELSE scan_with_progress(i, N, file_paths[i], WorkerSink, fs[file_paths[i]], pdfid_path)

\* the run of the started scan of file i
Outcome(i) == units[i][1]

Running(i) == tasks[i].st = "running"
NumRunning == Cardinality({i \in Files : Running(i)})

\* scan_pdf has been entered for file i: in a batch, once the call of the
\* callback for "Scanning i/n" has returned
Entered(i) == tasks[i].st # "queued" /\ (N = 1 \/ tasks[i].pos > 1 \/ tasks[i].st = "done")

InitGui ==
    /\ status_label = Plain(Str("Initializing scan..."))
    /\ progress_bar = 0
    /\ scan_history = <<>>
    /\ scan_errors = 0
    /\ cards = <<>>
    /\ current_worker = 1

InitWorker ==
    /\ _is_cancelled = FALSE
    /\ tasks = [i \in Files |-> IdleTask]
    /\ units = [i \in Files |-> <<>>]
    /\ results = <<>>
    /\ collected = {}
    /\ ri = 1

Init ==
    /\ fs = WorkerFs
    /\ pdfid_path = TRUE
    /\ cpu_count \in 1..MaxCpu
    /\ file_paths \in SeqsUpTo(WorkerPaths, MaxFiles) \cup SeqsUpTo(ValidPaths, MaxFiles)
    /\ api = NoApi
    /\ ret = <<>>
    /\ wpc = "run"
    /\ InitWorker
    /\ InitGui

\* ScanWorker.cancel, called by the GUI thread
cancel ==
    /\ wpc # "api"
    /\ ~_is_cancelled
    /\ _is_cancelled' = TRUE
    /\ UNCHANGED <<env, ret, wpc, tasks, units, results, collected, ri, gui>>

\* _scan_multiple_files, lines 60-62: the two signals before the batch starts
PrepareBatch ==
    /\ wpc = "run" /\ N # 1
    /\ status_label' = Plain(StrN("Preparing to scan {total_files} files...", <<N>>))
    /\ progress_bar' = 0
    /\ wpc' = "submit"
    /\ UNCHANGED <<env, ret, _is_cancelled, tasks, units, results, collected, ri, scan_history,
                   scan_errors, cards, current_worker>>

\* scan_multiple_pdfs, lines 477-481: every file is submitted to the pool
Submit ==
    /\ wpc = "submit"
    /\ wpc' = "pool"
    /\ UNCHANGED <<env, ret, _is_cancelled, tasks, units, results, collected, ri, gui>>

\* a pool that starts a thread for every unit of work submitted
StartUnitUnbounded(i) ==
    /\ wpc = "pool"
    /\ tasks[i].st = "queued"
    /\ \A j \in 1..(i - 1) : tasks[j].st # "queued"
    /\ tasks' = [tasks EXCEPT ![i].st = "running"]
    /\ units' = [units EXCEPT ![i] = <<RunUnit(i)>>]
    /\ UNCHANGED <<env, ret, wpc, _is_cancelled, results, collected, ri, gui>>

\* a pool thread takes the next unit of work off the queue
StartUnit(i) ==
    /\ wpc = "pool"
    /\ tasks[i].st = "queued"
    /\ \A j \in 1..(i - 1) : tasks[j].st # "queued"
    /\ NumRunning < MaxConcurrent
    /\ tasks' = [tasks EXCEPT ![i].st = "running"]
    /\ units' = [units EXCEPT ![i] = <<RunUnit(i)>>]
    /\ UNCHANGED <<env, ret, wpc, _is_cancelled, results, collected, ri, gui>>

\* the callback of the worker is entered for the next message of file i and
\* reads the flag: "if self._is_cancelled: return"
CallbackCheck(i) ==
    /\ Running(i) /\ ~tasks[i].armed
    /\ tasks[i].pos <= Len(Outcome(i).msgs)
    /\ tasks' = IF _is_cancelled THEN [tasks EXCEPT ![i].pos = @ + 1]
                ELSE [tasks EXCEPT ![i].armed = TRUE]
    /\ UNCHANGED <<env, ret, wpc, _is_cancelled, units, results, collected, ri, gui>>

\* the callback emits: progressUpdate, and in a batch progressValue when the
\* message yields a percentage
CallbackEmit(i) ==
    /\ Running(i) /\ tasks[i].armed
    /\ LET message == Outcome(i).msgs[tasks[i].pos]
           progress == IF N = 1 THEN <<>> ELSE ProgressOf(message, N)
       IN  /\ status_label' = message
           /\ progress_bar' = IF progress # <<>> THEN progress[1] ELSE progress_bar
    /\ tasks' = [tasks EXCEPT ![i].pos = @ + 1, ![i].armed = FALSE]
    /\ UNCHANGED <<env, ret, wpc, _is_cancelled, units, results, collected, ri, scan_history,
                   scan_errors, cards, current_worker>>

\* a scan that does not return before every file of the batch has left the queue
FinishUnitBarrier(i) ==
    /\ Running(i) /\ ~tasks[i].armed
    /\ tasks[i].pos > Len(Outcome(i).msgs)
    /\ \A j \in Files : tasks[j].st # "queued"
    /\ tasks' = [tasks EXCEPT ![i].st = "done"]
    /\ wpc' = IF wpc = "s_scan" THEN "s_after" ELSE wpc
    /\ UNCHANGED <<env, ret, _is_cancelled, units, results, collected, ri, gui>>

\* the scan of file i ends: its future holds a result or an exception
FinishUnit(i) ==
    /\ Running(i) /\ ~tasks[i].armed
    /\ tasks[i].pos > Len(Outcome(i).msgs)
    /\ tasks' = [tasks EXCEPT ![i].st = "done"]
    /\ wpc' = IF wpc = "s_scan" THEN "s_after" ELSE wpc
    /\ UNCHANGED <<env, ret, _is_cancelled, units, results, collected, ri, gui>>

\* a loop that appends nothing for a future whose result() raises
CollectDropsFault(i) ==
    /\ wpc = "pool"
    /\ tasks[i].st = "done" /\ i \notin collected
    /\ results' = IF Outcome(i).raised THEN results
                  ELSE Append(results, FutureResult(file_paths[i], Outcome(i)))
    /\ collected' = collected \cup {i}
    /\ wpc' = IF collected' = Files THEN "report" ELSE "pool"
    /\ UNCHANGED <<env, ret, _is_cancelled, tasks, units, ri, gui>>

\* scan_multiple_pdfs, lines 483-500: as_completed yields a finished future,
\* its result or its error result is appended; after the last one the call returns
Collect(i) ==
    /\ wpc = "pool"
    /\ tasks[i].st = "done" /\ i \notin collected
    /\ results' = Append(results, FutureResult(file_paths[i], Outcome(i)))
    /\ collected' = collected \cup {i}
    /\ wpc' = IF collected' = Files THEN "report" ELSE "pool"
    /\ UNCHANGED <<env, ret, _is_cancelled, tasks, units, ri, gui>>

\* _scan_multiple_files, lines 84-86: the loop reads the flag
ReportCheck ==
    /\ wpc = "report"
    /\ wpc' = IF ri > Len(results) \/ _is_cancelled THEN "final" ELSE "report_emit"
    /\ UNCHANGED <<env, ret, _is_cancelled, tasks, units, results, collected, ri, gui>>

\* PDFScannerGUI.on_scan_complete, on scanComplete
on_scan_complete(result) ==
    /\ cards' = Append(cards, [worker |-> 1, result |-> result])
    /\ scan_history' = Append(scan_history, result)
    /\ status_label' = Plain(StrP("Finished scanning: {result.file_path.name}", result.file_path))

\* line 87: scanComplete.emit(result)
ReportEmit ==
    /\ wpc = "report_emit"
    /\ on_scan_complete(results[ri])
    /\ ri' = ri + 1
    /\ wpc' = "report"
    /\ UNCHANGED <<env, ret, _is_cancelled, tasks, units, results, collected, progress_bar,
                   scan_errors, current_worker>>

\* lines 89-90: "if not self._is_cancelled"
FinalCheck ==
    /\ wpc = "final"
    /\ wpc' = IF _is_cancelled THEN "done" ELSE "final_emit"
    /\ UNCHANGED <<env, ret, _is_cancelled, tasks, units, results, collected, ri, gui>>

\* line 90: progressValue.emit(100)
FinalEmit ==
    /\ wpc = "final_emit"
    /\ progress_bar' = 100
    /\ wpc' = "done"
    /\ UNCHANGED <<env, ret, _is_cancelled, tasks, units, results, collected, ri, status_label,
                   scan_history, scan_errors, cards, current_worker>>

\* _scan_single_file, lines 38-39: "if self._is_cancelled: return"
SingleCheck ==
    /\ wpc = "run" /\ N = 1
    /\ wpc' = IF _is_cancelled THEN "done" ELSE "s_prepare"
    /\ UNCHANGED <<env, ret, _is_cancelled, tasks, units, results, collected, ri, gui>>

\* lines 41-49: the two signals, then scan_pdf is called in the worker thread
SinglePrepare ==
    /\ wpc = "s_prepare"
    /\ status_label' = Plain(StrP("Preparing to scan: {file_path.name}", file_paths[1]))
    /\ progress_bar' = 10
    /\ tasks' = [tasks EXCEPT ![1].st = "running"]
    /\ units' = [units EXCEPT ![1] = <<RunUnit(1)>>]
    /\ wpc' = "s_scan"
    /\ UNCHANGED <<env, ret, _is_cancelled, results, collected, ri, scan_history, scan_errors,
                   cards, current_worker>>

\* lines 51 and 55: the flag is read after scan_pdf has returned or raised
SingleAfter ==
    /\ wpc = "s_after"
    /\ wpc' = IF _is_cancelled THEN "done"
              ELSE IF Outcome(1).raised THEN "s_error" ELSE "s_emit"
    /\ UNCHANGED <<env, ret, _is_cancelled, tasks, units, results, collected, ri, gui>>

\* lines 52-53: progressValue.emit(100); scanComplete.emit(result)
SingleEmit ==
    /\ wpc = "s_emit"
    /\ progress_bar' = 100
    /\ on_scan_complete(Outcome(1).result[1])
    /\ wpc' = "done"
    /\ UNCHANGED <<env, ret, _is_cancelled, tasks, units, results, collected, ri, scan_errors,
                   current_worker>>

\* line 56: scanError.emit(...), shown by PDFScannerGUI.on_scan_error
SingleError ==
    /\ wpc = "s_error"
    /\ scan_errors' = scan_errors + 1
    /\ status_label' = Plain(Str("Error during scan"))
    /\ wpc' = "done"
    /\ UNCHANGED <<env, ret, _is_cancelled, tasks, units, results, collected, ri, progress_bar,
                   scan_history, cards, current_worker>>

Next ==
    \/ cancel
    \/ PrepareBatch
    \/ Submit
    \/ \E i \in Files : StartUnit(i)
    \/ \E i \in Files : CallbackCheck(i)
    \/ \E i \in Files : CallbackEmit(i)
    \/ \E i \in Files : FinishUnit(i)
    \/ \E i \in Files : Collect(i)
    \/ ReportCheck
    \/ ReportEmit
    \/ FinalCheck
    \/ FinalEmit
    \/ SingleCheck
    \/ SinglePrepare
    \/ SingleAfter
    \/ SingleEmit
    \/ SingleError

\* a ScanWorker started on one to MaxFiles files, and a GUI thread that may cancel it
Spec == Init /\ [][Next]_vars

(***************************************************************************)
(* A batch under fair scheduling, and a window in which start_scan is      *)
(* called again while the worker runs.  The thread of the worker that the  *)
(* second start_scan starts is not followed.                               *)
(***************************************************************************)
\* the files of the batch: a PDF that scans, and one whose scan raises
BatchPaths == {"a.pdf", "b.pdf"}

InitBatch ==
    /\ fs = WorkerFs
    /\ pdfid_path = TRUE
    /\ cpu_count \in 1..MaxCpu
    /\ file_paths \in {q \in SeqsUpTo(BatchPaths, MaxFiles) : Len(q) > 1}
    /\ api = NoApi
    /\ ret = <<>>
    /\ wpc = "run"
    /\ InitWorker
    /\ InitGui

\* PDFScannerGUI.start_scan, called by the GUI thread while worker 1 is the
\* current one: cancel it, clear the cards, reset bar and label, start worker 2
start_scan ==
    /\ current_worker = 1
    /\ _is_cancelled' = TRUE
    /\ cards' = <<>>
    /\ progress_bar' = 0
    /\ status_label' = Plain(Str("Initializing scan..."))
    /\ current_worker' = 2
    /\ UNCHANGED <<env, ret, wpc, tasks, units, results, collected, ri, scan_history,
                   scan_errors>>

\* the steps of the pool thread that runs the scan of file i
UnitStep(i) == StartUnit(i) \/ CallbackCheck(i) \/ CallbackEmit(i) \/ FinishUnit(i)

\* the steps of the worker thread in _scan_multiple_files and scan_multiple_pdfs
WorkerStep ==
    \/ PrepareBatch
    \/ Submit
    \/ \E i \in Files : Collect(i)
    \/ ReportCheck
    \/ ReportEmit
    \/ FinalCheck
    \/ FinalEmit

NextBatch ==
    \/ start_scan
    \/ WorkerStep
    \/ \E i \in Files : UnitStep(i)

\* a pool thread can take file i off the queue: ENABLED <<StartUnit(i)>>_vars
StartEnabled(i) ==
    /\ i \in Files
    /\ wpc = "pool"
    /\ tasks[i].st = "queued"
    /\ \A j \in 1..(i - 1) : tasks[j].st # "queued"
    /\ NumRunning < MaxConcurrent

\* the steps of a scan that has been started
RunStep(i) == i \in Files /\ (CallbackCheck(i) \/ CallbackEmit(i) \/ FinishUnit(i))

\* every thread that can take a step is scheduled in the end: weak fairness of
\* the worker thread, of every running scan, and of the start of every scan
\* (written out with StartEnabled in the place of ENABLED)
FairBatch ==
    /\ WF_vars(WorkerStep)
    /\ \A i \in 1..MaxFiles : WF_vars(RunStep(i))
    /\ \A i \in 1..MaxFiles :
          []<>(~StartEnabled(i)) \/ []<><<i \in Files /\ StartUnit(i)>>_vars

SpecBatch == InitBatch /\ [][NextBatch]_vars /\ FairBatch

(***************************************************************************)
(* Direct calls of the scanner, with any sink: scan_pdf on one file, and   *)
(* scan_multiple_pdfs on a list of one file.                               *)
(***************************************************************************)
ApiPaths == {"a.pdf", "D.PDF", "notes.txt"}
\* an explicit timeout of the caller, in seconds
ApiTimeout == 45

InitScan ==
    /\ \E prof \in Profiles : fs = [p \in Paths |-> prof]
    /\ pdfid_path \in BOOLEAN
    /\ cpu_count = 1
    /\ \E p \in ApiPaths : file_paths = <<p>>
    /\ api \in [timeout : {<<>>, <<ApiTimeout>>}, sink : Sinks]
    /\ ret = <<>>
    /\ wpc = "api"
    /\ InitWorker
    /\ InitGui

\* scan_pdf(file_path, timeout, progress_callback)
ScanPdfCall ==
    /\ wpc = "api" /\ ret = <<>>
    /\ LET o == scan_pdf(file_paths[1], api.timeout, api.sink, fs[file_paths[1]], pdfid_path)
       IN  ret' = <<[call |-> "scan_pdf", raised |-> o.raised, results |-> o.result, o |-> o]>>
    /\ UNCHANGED <<env, wpc, _is_cancelled, tasks, units, results, collected, ri, gui>>

\* scan_multiple_pdfs([file_path], progress_callback): one unit, one result
ScanBatchCall ==
    /\ wpc = "api" /\ ret = <<>>
    /\ api.timeout = <<>>
    /\ LET o == scan_with_progress(1, 1, file_paths[1], api.sink, fs[file_paths[1]], pdfid_path)
       IN  ret' = <<[call |-> "scan_multiple_pdfs", raised |-> FALSE,
                     results |-> <<FutureResult(file_paths[1], o)>>, o |-> o]>>
    /\ UNCHANGED <<env, wpc, _is_cancelled, tasks, units, results, collected, ri, gui>>

NextScan == ScanPdfCall \/ ScanBatchCall

SpecScan == InitScan /\ [][NextScan]_vars

(***************************************************************************)
(* Direct calls of the helpers of the scanner: the classifier on a keyword *)
(* mapping, the timeout policy on two file sizes.                          *)
(***************************************************************************)
\* most keys in a keyword mapping handed to the classifier
MaxKeys == 3

\* keywords of each severity of the table, and one that is not in the table
Keywords == {"/JS", "/OpenAction", "/XFA", "/Encrypt", "/Page"}
Counts == {0 - 1, 0, 1}

Range(f) == {f[i] : i \in DOMAIN f}

\* the mappings of at most MaxKeys keys, in every insertion order
KeywordMaps ==
    {kw \in UNION {[1..n -> [k : Keywords, v : Counts]] : n \in 0..MaxKeys} :
        \A i, j \in 1..Len(kw) : i # j => kw[i].k # kw[j].k}

\* st_size at and just past each step of the timeout policy, up to the size limit
TimeoutSizes == {0, 10 * MiB, 10 * MiB + 1, 100 * MiB, 100 * MiB + 1, 500 * MiB,
                 500 * MiB + 1, MAX_FILE_SIZE_MB * MiB}

InitHelpers ==
    /\ fs = WorkerFs
    /\ pdfid_path = TRUE
    /\ cpu_count = 1
    /\ file_paths = <<"a.pdf">>
    /\ api \in {[fn |-> "_assess_threats", keywords |-> kw, a |-> 0, b |-> 0] :
                    kw \in KeywordMaps}
               \cup {[fn |-> "_calculate_timeout", keywords |-> <<>>, a |-> a, b |-> b] :
                       a \in TimeoutSizes, b \in TimeoutSizes}
    /\ ret = <<>>
    /\ wpc = "helper"
    /\ InitWorker
    /\ InitGui

\* _assess_threats(keywords)
AssessCall ==
    /\ wpc = "helper" /\ ret = <<>>
    /\ api.fn = "_assess_threats"
    /\ ret' = <<[call |-> "_assess_threats", out |-> _assess_threats(api.keywords)]>>
    /\ UNCHANGED <<env, wpc, _is_cancelled, tasks, units, results, collected, ri, gui>>

\* _calculate_timeout(a) and _calculate_timeout(b), sizes in bytes
TimeoutCall ==
    /\ wpc = "helper" /\ ret = <<>>
    /\ api.fn = "_calculate_timeout"
    /\ ret' = <<[call |-> "_calculate_timeout",
                 out |-> [a |-> _calculate_timeout(api.a), b |-> _calculate_timeout(api.b)]]>>
    /\ UNCHANGED <<env, wpc, _is_cancelled, tasks, units, results, collected, ri, gui>>

NextHelpers == AssessCall \/ TimeoutCall

SpecHelpers == InitHelpers /\ [][NextHelpers]_vars

(***************************************************************************)
(* Direct calls of the parser, followed by the classifier as in scan_pdf,  *)
(* on every text of at most MaxLines lines.                                *)
(***************************************************************************)
\* most lines in a text handed to the parser
MaxLines == 5

\* lines of the tool: three "KEYWORD COUNT" lines, two of them for one keyword,
\* and four that are not: blank, a value that is no integer, one token, three tokens
ValidLines == { <<"/JS", "1">>, <<"/JS", "0">>, <<"/Encrypt", "2">> }
MalformedLines == { <<>>, <<"/AA", "1(1)">>, <<"obj">>, <<"/XFA", "1", "2">> }

Outputs == UNION {[1..n -> ValidLines \cup MalformedLines] : n \in 0..MaxLines}

InitParser ==
    /\ fs = WorkerFs
    /\ pdfid_path = TRUE
    /\ cpu_count = 1
    /\ file_paths = <<"a.pdf">>
    /\ api \in [fn : {"_parse_pdfid_output"}, output : Outputs]
    /\ ret = <<>>
    /\ wpc = "parser"
    /\ InitWorker
    /\ InitGui

\* lines 288-289 of scan_pdf: _parse_pdfid_output(output), then _assess_threats
ParseCall ==
    /\ wpc = "parser" /\ ret = <<>>
    /\ LET keyword_counts == _parse_pdfid_output(api.output)
       IN  ret' = <<[call |-> "_parse_pdfid_output", out |-> keyword_counts,
                     threat |-> _assess_threats(keyword_counts)]>>
    /\ UNCHANGED <<env, wpc, _is_cancelled, tasks, units, results, collected, ri, gui>>

NextParser == ParseCall

SpecParser == InitParser /\ [][NextParser]_vars

(***************************************************************************)
(* Properties.                                                             *)
(***************************************************************************)
\* scan_multiple_pdfs has returned to the worker
Returned == N > 1 /\ wpc \in {"report", "report_emit", "final", "final_emit", "done"}

Occurrences(seq, x) == Cardinality({j \in 1..Len(seq) : seq[j] = x})
ResultPaths == [j \in 1..Len(results) |-> results[j].file_path]

\* every result a direct call has handed back
Returns == IF ret = <<>> THEN {} ELSE {ret[1].results[j] : j \in 1..Len(ret[1].results)}

\* the scan of the file at path p meets no obstacle: the file is there, is a
\* PDF within the size limit, the tool is found, runs and exits with 0
Valid(p) ==
    /\ fs[p].kind = "file" /\ fs[p].exists = "yes" /\ fs[p].stat = "ok"
    /\ Lower(Suffix(p)) = ".pdf"
    /\ ~SizeOver(fs[p].st_size, MAX_FILE_SIZE_MB)
    /\ pdfid_path
    /\ fs[p].run.priority = "ok" /\ fs[p].run.kind = "completed" /\ fs[p].run.returncode = 0

\* the scan of the file at path p meets a fault that nothing in scan_pdf catches
Faulty(p) == fs[p].exists = "raise"

\* C1: absent cancellation, scan_multiple_pdfs over N paths returns exactly N
\* results, and every path occurs among the results' file_path as often as
\* among the input paths, whatever the order of completion and whether the
\* scans succeed, fail or raise.
C1_BatchComplete ==
    (Returned /\ ~_is_cancelled) =>
        /\ Len(results) = N
        /\ \A p \in Paths : Occurrences(ResultPaths, p) = Occurrences(file_paths, p)

\* a batch has returned, uncancelled, in which one scan raised, another
\* succeeded, and the results are not in the order of the input
C1_Witness ==
    /\ Returned /\ ~_is_cancelled
    /\ \E i, j \in Files : Outcome(i).raised /\ ~Outcome(j).raised
    /\ \E j \in 1..Len(results) : results[j].success
    /\ ResultPaths # file_paths

\* C2: when the scan of exactly one file of a batch raises an unexpected fault
\* and the other files are valid, the batch still returns N results: one for
\* the faulting file, with success false, whose file_path and error_message
\* name that file, and N-1 with success true.
C2_FailureIsolation ==
    \A k \in Files :
        (/\ Returned
         /\ Faulty(file_paths[k])
         /\ \A j \in Files \ {k} : Valid(file_paths[j]))
        => /\ Len(results) = N
           /\ Cardinality({j \in 1..N : results[j].file_path = file_paths[k]}) = 1
           /\ \A j \in 1..N :
                IF results[j].file_path = file_paths[k]
                THEN ~results[j].success /\ results[j].error_message.name = file_paths[k]
                ELSE results[j].success

\* a batch has returned in which one file faulted and the others were valid
C2_Witness ==
    /\ Returned
    /\ \E k \in Files : /\ Faulty(file_paths[k])
                        /\ Outcome(k).raised
                        /\ \A j \in Files \ {k} : Valid(file_paths[j])

\* C3: scan_pdf never raises to its caller: whatever the path and wherever a
\* fault occurs, the call returns one ScanResult.
C3_ScanPdfNeverRaises ==
    (ret # <<>> /\ ret[1].call = "scan_pdf") => (~ret[1].raised /\ Len(ret[1].results) = 1)

\* C4: every result with success false, of scan_pdf on any path or of the
\* per-unit fault handler of scan_multiple_pdfs, has threat_level SAFE.
C4_FailureIsSafe == \A r \in Returns : ~r.success => r.threat_level = "SAFE"

\* the per-unit handler of scan_multiple_pdfs has built a failing result
C4_Witness ==
    /\ ret # <<>> /\ ret[1].call = "scan_multiple_pdfs" /\ ret[1].o.raised
    /\ \E r \in Returns : ~r.success

\* C5: every result with success true has a non-empty recommendations list.
C5_SuccessHasRecommendations == \A r \in Returns : r.success => r.recommendations # <<>>

\* a scan has succeeded on a tool output that parses to the empty mapping
C5_Witness ==
    \E r \in Returns : /\ r.success /\ r.threat_level = "SAFE"
                       /\ DictKeys(r.details) = {"file_size_mb"}

\* C6: no value in the details of a result is negative, whatever the tool printed.
C6_NoNegativeCount == \A r \in Returns : \A j \in 1..Len(r.details) : r.details[j].v >= 0

\* C7: every result with success false has a non-empty recommendations list.
C7_FailureHasRecommendations == \A r \in Returns : ~r.success => r.recommendations # <<>>

\* the files of the batch for which scan_pdf has been entered
EnteredSet == {i \in Files : Entered(i)}

\* C8: once the cancellation flag is set, scan_pdf is entered for no further
\* file of the batch.
C8_NoScanStartedAfterCancel == [][(N > 1 /\ _is_cancelled) => EnteredSet' \subseteq EnteredSet]_vars

\* C9: once the cancellation flag is set, the worker emits no further
\* scanComplete, progressUpdate or progressValue: nothing reaches the window.
C9_NoEventAfterCancel ==
    [][_is_cancelled => <<status_label, progress_bar, scan_history>>'
                        = <<status_label, progress_bar, scan_history>>]_vars

\* C10: during a batch, the percentage delivered to the progress bar never decreases.
C10_ProgressMonotonic == [][N > 1 => progress_bar' >= progress_bar]_vars

\* the scans of the batch in progress: scan_pdf entered and not yet returned
InProgress == {i \in Files : Running(i) /\ Entered(i)}

\* C11: at every moment of a batch, the number of scans in progress is at most
\* min(min(6, CPU count), 3), however many files were submitted.
C11_BoundedConcurrency ==
    N > 1 => Cardinality(InProgress) <= Min(Min(6, cpu_count), 3)

\* the bound is met while a further file of the batch waits in the queue
C11_Witness ==
    /\ N > 1
    /\ Cardinality(InProgress) = Min(Min(6, cpu_count), 3)
    /\ \E i \in Files : tasks[i].st = "queued"

\* the result of scan_pdf called on the file at path p alone, with no sink
Alone(p) == scan_pdf(p, <<>>, NoSink, fs[p], pdfid_path).result[1]

\* two results agree in success, threat_level, details, recommendations and
\* error_message
SameVerdict(r, q) ==
    /\ r.success = q.success
    /\ r.threat_level = q.threat_level
    /\ r.details = q.details
    /\ r.recommendations = q.recommendations
    /\ r.error_message = q.error_message

\* C12: when every file of a batch is valid, each result of scan_multiple_pdfs
\* agrees with the result of scan_pdf on its file alone, and every file of the
\* batch has such a result, whatever the interleaving of the pool threads.
C12_BatchMatchesAlone ==
    (Returned /\ \A i \in Files : Valid(file_paths[i])) =>
        /\ \A j \in 1..Len(results) : SameVerdict(results[j], Alone(results[j].file_path))
        /\ \A i \in Files : \E j \in 1..Len(results) :
               /\ results[j].file_path = file_paths[i]
               /\ SameVerdict(results[j], Alone(file_paths[i]))

\* a batch of two different valid files, scanned side by side, has returned
\* its results in another order than the input
C12_Witness ==
    /\ Returned /\ \A i \in Files : Valid(file_paths[i])
    /\ cpu_count > 1
    /\ \E i, j \in Files : Alone(file_paths[i]).threat_level # Alone(file_paths[j]).threat_level
    /\ ResultPaths # file_paths

\* the classifier has returned
Assessed == ret # <<>> /\ ret[1].call = "_assess_threats"

\* the items of a mapping that match: count above zero and a rule for the key
Matched(kw) == {i \in 1..Len(kw) : kw[i].v > 0 /\ kw[i].k \in DOMAIN THREAT_DEFINITIONS}

SeverityOrder == <<"SAFE", "LOW", "MEDIUM", "HIGH", "CRITICAL">>
Rank(level) == CHOOSE n \in 1..Len(SeverityOrder) : SeverityOrder[n] = level

\* the highest severity among the matches, SAFE when there is none
MaxSeverity(kw) ==
    LET found == {THREAT_DEFINITIONS[kw[i].k] : i \in Matched(kw)}
    IN  IF found = {} THEN "SAFE"
        ELSE CHOOSE l \in found : \A m \in found : Rank(l) >= Rank(m)

\* the same items in every order
Reorderings(kw) == {q \in [1..Len(kw) -> Range(kw)] : Range(q) = Range(kw)}

\* C13: the level the classifier returns is the highest severity, in the order
\* SAFE < LOW < MEDIUM < HIGH < CRITICAL, among the keywords with a count above
\* zero and a rule in the table, SAFE when there is none, and the classifier
\* returns the same level for the items in any other order.
C13_AggregateIsMaximum ==
    Assessed =>
        /\ ret[1].out.threat_level = MaxSeverity(api.keywords)
        /\ \A q \in Reorderings(api.keywords) :
               _assess_threats(q).threat_level = ret[1].out.threat_level

\* the classifier has returned HIGH for a mapping where the HIGH match comes
\* first, a LOW match follows, and a CRITICAL keyword has a count of zero
C13_Witness ==
    /\ Assessed
    /\ ret[1].out.threat_level = "HIGH"
    /\ \E i, j, k \in 1..Len(api.keywords) :
          /\ i < j
          /\ api.keywords[i] = [k |-> "/OpenAction", v |-> 1]
          /\ api.keywords[j] = [k |-> "/Encrypt", v |-> 1]
          /\ api.keywords[k] = [k |-> "/JS", v |-> 0]

\* the texts of the size-tier messages for a file of st_size bytes
SizeTierTexts(st_size) ==
    IF SizeOver(st_size, LARGE_FILE_SIZE_MB)
    THEN << "Very large file ({file_size_mb:.1f}MB) - ensure sufficient system resources",
            "Large PDFs may take time to open and may consume significant memory" >>
    ELSE IF SizeOver(st_size, WARNING_FILE_SIZE_MB)
    THEN << "Large file ({file_size_mb:.1f}MB) - may require extra loading time" >>
    ELSE <<>>

\* C14: the recommendations of a successful scan of a file over 100 MB are the
\* baseline list of its level followed by the size-tier message(s) of its tier
\* (one message over 100 MB, two over 500 MB).
C14_SizeTierAppended ==
    \A r \in Returns :
        (r.success /\ SizeOver(fs[r.file_path].st_size, WARNING_FILE_SIZE_MB)) =>
            LET base == base_recommendations(r.threat_level, CountThreats(r.details))
                recs == r.recommendations
                tier == SizeTierTexts(fs[r.file_path].st_size)
            IN  /\ Len(recs) = Len(base) + Len(tier)
                /\ SubSeq(recs, 1, Len(base)) = base
                /\ \A j \in 1..Len(tier) : recs[Len(base) + j].text = tier[j]

\* the messages of a list into which the number n is interpolated
CountMessages(recs, n) == {j \in 1..Len(recs) : recs[j].num = <<n>>}

\* C15 as stated: for a level of MEDIUM, HIGH or CRITICAL the recommendations
\* hold one message into which the number of matched keywords is interpolated.
C15_CountInterpolatedFromMedium ==
    (Assessed /\ ret[1].out.threat_level \in {"MEDIUM", "HIGH", "CRITICAL"}) =>
        Cardinality(CountMessages(ret[1].out.recommendations,
                                  Cardinality(Matched(api.keywords)))) = 1

\* C15, amended: for a level of MEDIUM the recommendations hold one message
\* into which the number of matched keywords is interpolated; for HIGH and
\* CRITICAL no message of the list carries a number.
C15_CountInterpolatedAtMedium ==
    Assessed =>
        /\ ret[1].out.threat_level = "MEDIUM" =>
              Cardinality(CountMessages(ret[1].out.recommendations,
                                        Cardinality(Matched(api.keywords)))) = 1
        /\ ret[1].out.threat_level \in {"HIGH", "CRITICAL"} =>
              \A j \in 1..Len(ret[1].out.recommendations) :
                  ret[1].out.recommendations[j].num = <<>>

\* the classifier has returned MEDIUM for a mapping with a MEDIUM match, a LOW
\* match and a keyword that does not match
C15_Witness ==
    /\ Assessed
    /\ ret[1].out.threat_level = "MEDIUM"
    /\ ret[1].out.threat_count = 2
    /\ Len(api.keywords) = 3

\* a direct call has ended, by a return or by an exception
Called == ret # <<>> /\ ret[1].call \in {"scan_pdf", "scan_multiple_pdfs"}

\* the summary of the first admission check that the file at path p fails, in
\* the order existence, extension, size; "" when it passes them all
FirstFailure(p) ==
    IF fs[p].exists = "no" THEN "File not found"
    ELSE IF Lower(Suffix(p)) # ".pdf" THEN "Invalid file type"
    ELSE IF fs[p].stat = "OSError" THEN "File access error"
    ELSE IF SizeOver(fs[p].st_size, MAX_FILE_SIZE_MB) THEN "File too large"
    ELSE ""

\* C16: a file that fails an admission check is reported with the category of
\* the first check it fails, in the order existence, extension, size, and for
\* such a file the tool is neither looked for nor run.
C16_AdmissionOrder ==
    (Called /\ fs[file_paths[1]].exists # "raise" /\ FirstFailure(file_paths[1]) # "") =>
        /\ ret[1].o.invoked = 0
        /\ ~ret[1].o.raised =>
              /\ ret[1].o.result[1].summary.text = FirstFailure(file_paths[1])
              /\ ~ret[1].o.result[1].success

\* a missing file with a wrong extension has been reported as not found, on a
\* machine without the tool
C16_Witness ==
    /\ Called /\ ~ret[1].o.raised
    /\ fs[file_paths[1]].exists = "no" /\ Suffix(file_paths[1]) = ".txt"
    /\ ~pdfid_path
    /\ ret[1].o.result[1].summary.text = "File not found"

\* C17: a path that is not a regular file, a directory named like a PDF
\* included, is reported as not found and the tool is not run on it.
C17_NonRegularRejected ==
    (Called /\ ~ret[1].o.raised /\ fs[file_paths[1]].kind # "file") =>
        /\ ret[1].o.result[1].summary.text = "File not found"
        /\ ret[1].o.invoked = 0

\* the tool was started on the file of a direct call and did not finish in time
TimedOut ==
    /\ Called /\ ~ret[1].o.raised
    /\ ret[1].o.invoked = 1
    /\ fs[file_paths[1]].run.kind = "TimeoutExpired"

\* the budget in seconds applied to the call: the caller's, else the size policy's
Budget ==
    IF api.timeout # <<>> THEN api.timeout[1]
    ELSE _calculate_timeout(fs[file_paths[1]].st_size)

\* C18: when the tool does not finish within the timeout applied, scan_pdf
\* returns a failure with level SAFE, whose details hold file_size_mb and
\* nothing else, and whose first recommendation and error_message name the
\* number of seconds applied.
C18_TimeoutReported ==
    TimedOut =>
        LET r == ret[1].o.result[1]
        IN  /\ ~r.success /\ r.threat_level = "SAFE"
            /\ DictKeys(r.details) = {"file_size_mb"}
            /\ r.recommendations[1].text = "Scan timed out after {timeout} seconds"
            /\ r.recommendations[1].num = <<Budget>>
            /\ r.error_message.num = <<Budget>>

\* the scan of a file between 100 and 500 MB has timed out under a budget the
\* caller gave, shorter than the one of the size policy
C18_Witness ==
    /\ TimedOut
    /\ api.timeout = <<ApiTimeout>>
    /\ _calculate_timeout(fs[file_paths[1]].st_size) > ApiTimeout
    /\ SizeOver(fs[file_paths[1]].st_size, WARNING_FILE_SIZE_MB)

\* the outcome of the same call of scan_pdf made without a sink
WithoutSink == scan_pdf(file_paths[1], api.timeout, NoSink, fs[file_paths[1]], pdfid_path)

\* C19: the result scan_pdf returns for a file and a tool output is the same
\* with any sink, one whose call fails included, as with no sink.
C19_SinkIndependent ==
    (Called /\ ret[1].call = "scan_pdf" /\ ~ret[1].o.raised /\ ~WithoutSink.raised) =>
        SameVerdict(ret[1].o.result[1], WithoutSink.result[1])

\* the timeout policy has returned for the two sizes
Timed == ret # <<>> /\ ret[1].call = "_calculate_timeout"

\* the steps of the policy, on a size in bytes
StepOf(st_size) ==
    CASE st_size <= 10 * MiB -> 30
      [] st_size > 10 * MiB /\ st_size <= 100 * MiB -> 60
      [] st_size > 100 * MiB /\ st_size <= 500 * MiB -> 180
      [] OTHER -> 300

\* C20: for sizes a < b up to the size limit the timeout computed for a is at
\* most the one computed for b, and the timeout is 30 s up to 10 MB, 60 s up to
\* 100 MB, 180 s up to 500 MB and 300 s above.
C20_TimeoutMonotonic ==
    Timed =>
        /\ api.a < api.b => ret[1].out.a <= ret[1].out.b
        /\ ret[1].out.a = StepOf(api.a)
        /\ ret[1].out.b = StepOf(api.b)

\* the policy has returned for a file of exactly 100 MB and one a byte larger
C20_Witness ==
    /\ Timed
    /\ api.a = 100 * MiB /\ api.b = 100 * MiB + 1
    /\ ret[1].out.a < ret[1].out.b

\* the parser has returned
Parsed == ret # <<>> /\ ret[1].call = "_parse_pdfid_output"

\* a line is a "KEYWORD COUNT" line: two tokens, the second an integer
IsPair(line) == Len(line) = 2 /\ line[2] \in DOMAIN IntLiteral

\* the lines of a text that are "KEYWORD COUNT" lines, among those after line `from`
PairsAfter(output, from) == {j \in (from + 1)..Len(output) : IsPair(output[j])}

\* every entry of the mapping is the keyword and the count of a line of js
EntriesFrom(mapping, output, js) ==
    \A i \in 1..Len(mapping) :
        \E j \in js : output[j][1] = mapping[i].k /\ IntLiteral[output[j][2]] = mapping[i].v

\* C21: for a text with lines after its two header lines, the parser returns
\* the entries of the "KEYWORD COUNT" lines after the header and nothing else:
\* every such line has its keyword in the mapping, every entry of the mapping
\* is the keyword and count of such a line, however the other lines are mixed in.
C21_ParserLenient ==
    (Parsed /\ Len(api.output) > 2) =>
        /\ EntriesFrom(ret[1].out, api.output, PairsAfter(api.output, 2))
        /\ \A j \in PairsAfter(api.output, 2) : api.output[j][1] \in DictKeys(ret[1].out)
        /\ \A i, k \in 1..Len(ret[1].out) : i # k => ret[1].out[i].k # ret[1].out[k].k

\* the parser has returned two entries for a text whose lines after the header
\* are a pair, a line with a value that is no integer, and another pair
C21_Witness ==
    /\ Parsed
    /\ Len(api.output) = 5
    /\ IsPair(api.output[3]) /\ api.output[4] = <<"/AA", "1(1)">> /\ IsPair(api.output[5])
    /\ Len(ret[1].out) = 2

\* C22 as stated: whatever the number of lines of the text, no entry of the
\* mapping comes from line 1 or line 2: every entry is the keyword and count
\* of a line after the second.
C22_HeaderAlwaysSkipped ==
    Parsed => EntriesFrom(ret[1].out, api.output, PairsAfter(api.output, 2))

\* C22, amended: for a text of more than 2 lines every entry of the mapping is
\* the keyword and count of a line after the second; a text of 1 or 2 lines is
\* parsed whole, so that each "KEYWORD COUNT" line of it has its keyword in
\* the mapping.
C22_HeaderSkippedWhenLonger ==
    Parsed =>
        /\ Len(api.output) > 2 =>
              EntriesFrom(ret[1].out, api.output, PairsAfter(api.output, 2))
        /\ Len(api.output) <= 2 =>
              /\ EntriesFrom(ret[1].out, api.output, PairsAfter(api.output, 0))
              /\ \A j \in PairsAfter(api.output, 0) : api.output[j][1] \in DictKeys(ret[1].out)

\* the parser has returned for a text of more than 2 lines with pairs on lines
\* 1 and 2, whose keywords occur on no later line and in no entry
C22_Witness ==
    /\ Parsed
    /\ Len(api.output) > 2
    /\ api.output[1] = <<"/JS", "1">> /\ api.output[2] = <<"/Encrypt", "2">>
    /\ PairsAfter(api.output, 2) = {}
    /\ ret[1].out = <<>>

\* the data lines of the text handed to the parser that are "KEYWORD COUNT" lines
DataPairs == {j \in 1..Len(DataLines(api.output)) : IsPair(DataLines(api.output)[j])}

\* the count on the last "KEYWORD COUNT" data line of keyword key
LastCount(key) ==
    LET data == DataLines(api.output)
        last == CHOOSE j \in DataPairs :
                    /\ data[j][1] = key
                    /\ \A m \in DataPairs : data[m][1] = key => m <= j
    IN  IntLiteral[data[last][2]]

\* C28: the mapping holds, for every keyword, the count of the last line that
\* reports it, and the classifier counts as findings the threat keywords whose
\* last count is above zero and no others: a threat keyword reported with a
\* positive count and later with 0 neither counts nor raises the level.
C28_LastCountWins ==
    Parsed =>
        /\ \A i \in 1..Len(ret[1].out) : ret[1].out[i].v = LastCount(ret[1].out[i].k)
        /\ LET found == {DataLines(api.output)[j][1] : j \in DataPairs}
               hits == {key \in found : key \in DOMAIN THREAT_DEFINITIONS /\ LastCount(key) > 0}
           IN  /\ ret[1].threat.threat_count = Cardinality(hits)
               /\ hits = {} => ret[1].threat.threat_level = "SAFE"
               /\ hits # {} =>
                     /\ ret[1].threat.threat_level \in {THREAT_DEFINITIONS[key] : key \in hits}
                     /\ \A key \in hits :
                           Rank(ret[1].threat.threat_level) >= Rank(THREAT_DEFINITIONS[key])

\* the parser has returned for a text that reports /JS with 1 and, further
\* down, with 0, and the classifier has found nothing
C28_Witness ==
    /\ Parsed
    /\ \E i, j \in DataPairs :
          /\ i < j
          /\ DataLines(api.output)[i] = <<"/JS", "1">>
          /\ DataLines(api.output)[j] = <<"/JS", "0">>
          /\ \A m \in DataPairs : m > j => DataLines(api.output)[m][1] # "/JS"
    /\ DictGet(ret[1].out, "/JS", 1) = 0
    /\ ret[1].threat.threat_count = 0
    /\ ret[1].threat.threat_level = "SAFE"

\* the file of a direct call passes the three admission checks
Admitted == fs[file_paths[1]].exists = "yes" /\ FirstFailure(file_paths[1]) = ""

\* the sink of a direct call, if any, returns from every call made to it
SinkQuiet == api.sink.fail = "none"

\* C23: a call whose file passes admission, with the tool located, starts
\* exactly one external process, whatever becomes of it; a call whose file
\* fails admission, or that finds no tool, starts none.
C23_OneProcessPerScan ==
    (Called /\ SinkQuiet) =>
        ret[1].o.invoked = IF Admitted /\ pdfid_path THEN 1 ELSE 0

\* the outcome of the same scan on a machine where the priority hint applies
HintApplied ==
    scan_pdf(file_paths[1], api.timeout, api.sink,
             [fs[file_paths[1]] EXCEPT !.run.priority = "ok"], pdfid_path)

\* C24: when applying the priority hint fails, in whatever way, the tool is
\* still run and the result is the one of the scan with the hint applied.
C24_HintFailureIgnored ==
    (Called /\ SinkQuiet /\ Admitted /\ pdfid_path /\ fs[file_paths[1]].run.priority # "ok") =>
        /\ ret[1].o.invoked = 1
        /\ SameVerdict(ret[1].o.result[1], HintApplied.result[1])

\* C27: in every result of scan_pdf and of scan_multiple_pdfs, error_message
\* is set (is not None) exactly when success is false.
C27_ErrorMessageIffFailure ==
    \A r \in Returns : (r.error_message # None) <=> ~r.success

\* the tool has exited with an error and printed nothing, and the failure
\* result carries an error_message all the same
C27_Witness ==
    /\ Called /\ ret[1].call = "scan_pdf"
    /\ fs[file_paths[1]].run.returncode # 0 /\ fs[file_paths[1]].run.stderr = ""
    /\ \E r \in Returns : /\ ~r.success /\ r.summary.text = "Scan failed"
                           /\ r.error_message # None

\* C25: under fair scheduling of the worker thread and the pool threads, a
\* call of scan_multiple_pdfs, once made, returns its list of results.
C25_BatchTerminates == (wpc = "submit") ~> Returned

\* a batch of more files than the pool has threads has returned, one of its
\* scans having raised
C25_Witness ==
    /\ Returned
    /\ N > MaxConcurrent
    /\ Len(results) = N
    /\ \E i \in Files : Outcome(i).raised

\* C26: once start_scan has put a new worker in place of the cancelled one,
\* every card in the results area is a result of the new worker.
C26_NoStaleCard ==
    \A j \in 1..Len(cards) : cards[j].worker = current_worker

====
